---- MODULE Spec2Model ----
(***************************************************************************)
(* Model of @storehouse/mongodb (src/src/index.ts): the MongoDbManager     *)
(* class (constructor, lifecycle observers, closeConnection, getModel,     *)
(* isConnected, healthCheck) and the registry lookup helpers.              *)
(*                                                                         *)
(* The mongodb driver and the @storehouse/core registry are collaborators  *)
(* outside the repository: the model gives them every outcome the adapter  *)
(* code can observe (a ping that resolves, rejects, or a db() that throws; *)
(* a registry lookup that finds a manager, something else, or nothing).    *)
(***************************************************************************)
EXTENDS Integers, Sequences, FiniteSets, TLC

VARIABLES
    now,          \* Date.now(): the clock, read by the constructor and healthCheck
    settings,     \* the argument of the last `new MongoDbManager(settings)`
    mstate,       \* "none" | "failed" | "alive": outcome of `new MongoDbManager(settings)`
    thrown,       \* error thrown by the last constructor call ("none" when it returned)
    clientCreated,\* TRUE once super(url, options) has run: the MongoClient exists
    url,          \* the url handed to super()
    name,         \* this.name
    listeners,    \* event name -> number of observers registered with this.on(...)
    connectIssued,\* TRUE once connect() has been called on the client
    conn,         \* lifecycle of the client: "none" | "constructed" | "opening" | "open" | "closed"
    closeCall,    \* the closeConnection call: its argument, the underlying close(), its outcome
    connectCall,  \* the connect() call: pending, or what it gave the caller
    log,          \* what the last logging statement did: the line written, or the error thrown
    calls,        \* the isConnected()/healthCheck() calls in flight, one per slot
    done,         \* the probe call that completed last: its inputs and what it gave the caller
    gmName,       \* Manager.getModel: the name argument
    gmResult,     \* Manager.getModel: the handle returned
    gcResult,     \* Manager.getConnection: the client returned
    registry,     \* the registry: manager name -> what is registered under it
    defaultManager,\* registry.defaultManager
    lookup,       \* the lookup helper call that completed last
    created       \* the Managers constructed one after another: settings, instant, random bytes, name

vars == <<now, settings, mstate, thrown, clientCreated, url, name, listeners, connectIssued,
          conn, closeCall, connectCall, log, calls, done, gmName, gmResult, gcResult, registry, defaultManager, lookup, created>>

managerVars == <<now, settings, mstate, thrown, clientCreated, url, name, listeners, connectIssued,
                 conn, closeCall, connectCall, log, calls, done>>
getModelVars == <<gmName, gmResult, gcResult>>
lookupVars == <<registry, defaultManager, lookup>>

----------------------------------------------------------------------------
(* Bounds of the model *)

MaxClock == 2       \* the clock runs 0..MaxClock
MaxCalls == 1       \* probe calls in flight at once
MaxRnd == 1         \* randomBytes(3) ranges over 0..MaxRnd
MaxNameLen == 5     \* length of a getModel name, in characters
MaxManagers == 2    \* Managers constructed one after another
MaxConcurrent == 2  \* probe calls in flight at once, where calls overlap

----------------------------------------------------------------------------
(* JavaScript values *)

NoFields == [x \in {} |-> x]

\* `x ? .. : ..` / `!x` on an optional string: undefined and '' are falsy
Truthy(rec, f) == f \in DOMAIN rec /\ rec[f] # ""

\* Values a promise can reject with / a call can throw
Errors ==
    { [t |-> "Error", message |-> "connect ECONNREFUSED",
       stack |-> "MongoNetworkError: connect ECONNREFUSED\n    at connect"] }
NonErrors ==
    { [t |-> "string", v |-> "timeout"],
      [t |-> "number", n |-> 7] }
Thrown == Errors \cup NonErrors

\* `error instanceof Error`
InstanceOfError(e) == e.t = "Error"

\* Number.prototype.toString for the one-digit numbers of the model
DigitString(n) ==
    CASE n = 0 -> "0" [] n = 1 -> "1" [] n = 2 -> "2" [] n = 3 -> "3" [] n = 4 -> "4"
      [] n = 5 -> "5" [] n = 6 -> "6" [] n = 7 -> "7" [] n = 8 -> "8" [] n = 9 -> "9"

\* String(error)
String(e) ==
    CASE e.t = "string" -> e.v
      [] e.t = "number" -> DigitString(e.n)

\* Documents the ping command can resolve with
PingResponses == { [ok |-> 1], [ok |-> 0], [errmsg |-> "no ok field"] }

\* What a call gives its caller
Return(v) == [kind |-> "return", value |-> v]
Throw(e) == [kind |-> "throw", value |-> e]

----------------------------------------------------------------------------
(* MongoDbManager: constructor *)

Url1 == "mongodb://localhost:27017/testdb"
Configs ==
    { [url |-> u] : u \in {"", Url1} }
      \cup { [url |-> u, options |-> "maxPoolSize=10"] : u \in {"", Url1} }
      \cup { [options |-> "maxPoolSize=10"] }
\* MongoDbManagerArg values: name and config are both optional
SettingsSet ==
    { NoFields }
      \cup { [name |-> n] : n \in {"", "main"} }
      \cup { [config |-> c] : c \in Configs }
      \cup { [name |-> n, config |-> c] : n \in {"", "main"}, c \in Configs }

\* the database named in the connection url: what db() with no argument opens
DatabaseNameOf(u) == CASE u = Url1 -> "testdb"

\* a check that tests only for an absent url and lets '' through
MissingUrl_UndefinedOnly(st) ==
    ~ ("config" \in DOMAIN st /\ "url" \in DOMAIN st.config)

\* `!settings.config?.url`
MissingUrl(st) ==
    ~ ("config" \in DOMAIN st /\ Truthy(st.config, "url"))

\* `MongoDB ${Date.now()}_${randomBytes(3).toString('hex')}`
GeneratedName(t, rnd) == <<"MongoDB ", t, "_", rnd>>

\* a generated name made of the clock value alone
ManagerName_TimestampOnly(st, t, rnd) ==
    IF Truthy(st, "name") THEN <<st.name>> ELSE <<"MongoDB ", t>>

\* settings.name || generated
ManagerName(st, t, rnd) ==
    IF Truthy(st, "name") THEN <<st.name>> ELSE GeneratedName(t, rnd)

Events == {"topologyOpening", "serverOpening", "serverClosed", "topologyClosed", "error"}
NoListeners == [e \in Events |-> 0]

\* #registerConnectionEvents: one this.on(...) per event
registerConnectionEvents(ls) == [e \in Events |-> ls[e] + 1]

\* a value that is neither an object nor a string: `undefined`
UndefinedValue == [t |-> "undefined"]
\* what an 'error' event may carry
EventPayloads == Errors \cup NonErrors \cup {UndefinedValue}

\* Log.info / Log.warn / Log.error of `[${this.name}] ...`
LogLine(level, nm, text) == [level |-> level, text |-> <<"[", nm, "] ">> \o text]
NoLog == [kind |-> "none"]

\* `err.message`: a property read throws a TypeError on undefined, gives
\* undefined on a string or a number
MessageOf(err) ==
    IF err = UndefinedValue
    THEN Throw([t |-> "TypeError",
                message |-> "Cannot read properties of undefined (reading 'message')"])
    ELSE IF "message" \in DOMAIN err THEN Return(err.message)
    ELSE Return("undefined")

\* the observers registered by #registerConnectionEvents, run on an event
Observer(ev, nm, err) ==
    CASE ev = "topologyOpening" -> Return(LogLine("info", nm, <<"connecting ...">>))
      [] ev = "serverOpening" -> Return(LogLine("info", nm, <<"connected!">>))
      [] ev = "serverClosed" -> Return(LogLine("warn", nm, <<"disconnected!">>))
      [] ev = "topologyClosed" -> Return(LogLine("info", nm, <<"connection closed!">>))
      [] ev = "error" ->
            IF MessageOf(err).kind = "throw" THEN MessageOf(err)
            ELSE Return(LogLine("error", nm, <<"connection error: ", MessageOf(err).value>>))

\* the constructor throws before super() when the url is missing:
\* no client, no observers, no connect
ConstructFails(st) ==
    /\ mstate \in {"none", "failed"}
    /\ MissingUrl(st)
    /\ settings' = st
    /\ mstate' = "failed"
    /\ thrown' = "InvalidManagerConfigError"
    /\ UNCHANGED <<now, clientCreated, url, name, listeners, connectIssued, conn,
                   closeCall, connectCall, log, calls, done>>

\* a constructor that also calls this.connect()
Construct_Connects(st, rnd) ==
    /\ mstate \in {"none", "failed"}
    /\ ~ MissingUrl(st)
    /\ settings' = st
    /\ clientCreated' = TRUE
    /\ url' = st.config.url
    /\ name' = ManagerName(st, now, rnd)
    /\ listeners' = registerConnectionEvents(listeners)
    /\ connectIssued' = TRUE
    /\ conn' = "opening"
    /\ mstate' = "alive"
    /\ thrown' = "none"
    /\ UNCHANGED <<now, closeCall, connectCall, calls, done>>
    /\ log' = Return(LogLine("info", ManagerName(st, now, rnd), <<"MongoClient created. Must call \"MongoClient.connect()\".">>))

\* super(url, options); this.name = ...; this.#registerConnectionEvents()
Construct(st, rnd) ==
    /\ mstate \in {"none", "failed"}
    /\ ~ MissingUrl(st)
    /\ settings' = st
    /\ clientCreated' = TRUE
    /\ url' = st.config.url
    /\ name' = ManagerName(st, now, rnd)
    /\ listeners' = registerConnectionEvents(listeners)
    /\ conn' = "constructed"
    /\ mstate' = "alive"
    /\ thrown' = "none"
    /\ UNCHANGED <<now, connectIssued, closeCall, connectCall, calls, done>>
    /\ log' = Return(LogLine("info", ManagerName(st, now, rnd), <<"MongoClient created. Must call \"MongoClient.connect()\".">>))

----------------------------------------------------------------------------
(* The client's lifecycle, driven by the caller and the driver *)

\* an explicit connect() on the client
NoConnect == [pc |-> "idle"]

\* connect(), called by the application on the client; MongoDbManager inherits
\* it from MongoClient unchanged. The topology opens ('topologyOpening').
Connect ==
    /\ mstate = "alive"
    /\ connectIssued' = TRUE
    /\ connectCall' = [pc |-> "awaiting"]
    /\ conn' = IF conn \in {"constructed", "closed"} THEN "opening" ELSE conn
    /\ log' = IF conn \in {"constructed", "closed"}
              THEN Observer("topologyOpening", name, UndefinedValue) ELSE log
    /\ UNCHANGED <<now, settings, mstate, thrown, clientCreated, url, name, listeners,
                   closeCall, calls, done>>

\* the pending connect() resolves once the client is open
ConnectResolves ==
    /\ connectCall.pc = "awaiting"
    /\ conn = "open"
    /\ connectCall' = [pc |-> "returned"]
    /\ UNCHANGED <<now, settings, mstate, thrown, clientCreated, url, name, listeners,
                   connectIssued, conn, closeCall, log, calls, done>>

\* the pending connect() rejects with e after the attempt failed; no code of
\* the Manager stands between the driver and the caller
ConnectRejects(e) ==
    /\ connectCall.pc = "awaiting"
    /\ conn = "closed"
    /\ connectCall' = [pc |-> "threw", rejected |-> e, ret |-> Throw(e)]
    /\ UNCHANGED <<now, settings, mstate, thrown, clientCreated, url, name, listeners,
                   connectIssued, conn, closeCall, log, calls, done>>

\* 'serverOpening': the server became reachable
ServerOpening ==
    /\ conn = "opening"
    /\ conn' = "open"
    /\ log' = Observer("serverOpening", name, UndefinedValue)
    /\ UNCHANGED <<now, settings, mstate, thrown, clientCreated, url, name, listeners,
                   connectIssued, closeCall, connectCall, calls, done>>

\* 'serverClosed': the server became unreachable, or the connect attempt failed
ServerClosed ==
    /\ conn \in {"opening", "open"}
    /\ conn' = "closed"
    /\ log' = Observer("serverClosed", name, UndefinedValue)
    /\ UNCHANGED <<now, settings, mstate, thrown, clientCreated, url, name, listeners,
                   connectIssued, closeCall, connectCall, calls, done>>

\* 'error': the client emits an error event with a payload
ErrorEvent(err) ==
    /\ mstate = "alive"
    /\ log' = Observer("error", name, err)
    /\ UNCHANGED <<now, settings, mstate, thrown, clientCreated, url, name, listeners,
                   connectIssued, conn, closeCall, connectCall, calls, done>>

NoClose == [pc |-> "idle", force |-> "absent", arg |-> "absent", underlying |-> "none"]

\* closeConnection(force): `if (force) await this.close(force) else await this.close()`
CloseArg(force) == IF force = "true" THEN "true" ELSE "absent"

\* a closeConnection that starts the close and returns without awaiting it
CloseConnectionBegin_NoAwait(force) ==
    /\ mstate = "alive"
    /\ closeCall.pc # "awaiting"
    /\ closeCall.underlying # "pending"
    /\ closeCall' = [pc |-> "returned", force |-> force, arg |-> CloseArg(force),
                     underlying |-> "pending"]
    /\ UNCHANGED <<now, settings, mstate, thrown, clientCreated, url, name, listeners,
                   connectIssued, conn, connectCall, log, calls, done>>

\* closeConnection(force) up to its await: the underlying close() is called
CloseConnectionBegin(force) ==
    /\ mstate = "alive"
    /\ closeCall.pc # "awaiting"
    /\ closeCall.underlying # "pending"
    /\ closeCall' = [pc |-> "awaiting", force |-> force, arg |-> CloseArg(force),
                     underlying |-> "pending"]
    /\ UNCHANGED <<now, settings, mstate, thrown, clientCreated, url, name, listeners,
                   connectIssued, conn, connectCall, log, calls, done>>

\* the underlying close() completes: a topology that was opened is torn down
\* ('topologyClosed'); a client that never connected has none
UnderlyingCloseResolves ==
    /\ closeCall.underlying = "pending"
    /\ closeCall' = [closeCall EXCEPT !.underlying = "resolved"]
    /\ conn' = IF conn \in {"opening", "open"} THEN "closed" ELSE conn
    /\ log' = IF conn \in {"opening", "open"}
              THEN Observer("topologyClosed", name, UndefinedValue) ELSE log
    /\ UNCHANGED <<now, settings, mstate, thrown, clientCreated, url, name, listeners,
                   connectIssued, connectCall, calls, done>>

\* the underlying close() fails with e
UnderlyingCloseRejects(e) ==
    /\ closeCall.underlying = "pending"
    /\ closeCall' = [pc |-> closeCall.pc, force |-> closeCall.force, arg |-> closeCall.arg,
                     underlying |-> "rejected", rejected |-> e]
    /\ UNCHANGED <<now, settings, mstate, thrown, clientCreated, url, name, listeners,
                   connectIssued, conn, connectCall, log, calls, done>>

\* a closeConnection that catches the failure of close() and returns
CloseConnectionEnd_Swallows ==
    /\ closeCall.pc = "awaiting"
    /\ closeCall.underlying \in {"resolved", "rejected"}
    /\ closeCall' = [closeCall EXCEPT !.pc = "returned"]
    /\ UNCHANGED <<now, settings, mstate, thrown, clientCreated, url, name, listeners,
                   connectIssued, conn, connectCall, log, calls, done>>

\* closeConnection after its await: there is no try/catch around it, so it
\* returns when close() resolved and throws what close() rejected with
CloseConnectionEnd ==
    /\ closeCall.pc = "awaiting"
    /\ closeCall.underlying \in {"resolved", "rejected"}
    /\ closeCall' = IF closeCall.underlying = "resolved"
                    THEN [closeCall EXCEPT !.pc = "returned"]
                    ELSE [pc |-> "threw", force |-> closeCall.force, arg |-> closeCall.arg,
                          underlying |-> "rejected", rejected |-> closeCall.rejected,
                          ret |-> Throw(closeCall.rejected)]
    /\ UNCHANGED <<now, settings, mstate, thrown, clientCreated, url, name, listeners,
                   connectIssued, conn, connectCall, log, calls, done>>

\* time passes
Tick ==
    /\ now < MaxClock
    /\ now' = now + 1
    /\ UNCHANGED <<settings, mstate, thrown, clientCreated, url, name, listeners, connectIssued,
                   conn, closeCall, connectCall, log, calls, done>>

----------------------------------------------------------------------------
(* MongoDbManager: healthCheck and isConnected *)

Slots == 1..MaxCalls
IdleCall == [op |-> "none", start |-> 0]
NoneDone == [op |-> "none"]

\* `pingResult.ok === 1`
IsOk(pingResult) == "ok" \in DOMAIN pingResult /\ pingResult.ok = 1

\* a healthy result that reports isReady without looking at the response
HealthyResult_ReadyAlways(nm, dbName, start, end, pingResult) ==
    [ healthy |-> TRUE,
      message |-> "MongoDB connection is healthy",
      details |-> [ name |-> nm,
                    databaseName |-> dbName,
                    isOpen |-> TRUE,
                    isReady |-> TRUE,
                    pingResponse |-> pingResult,
                    latency |-> DigitString(end - start) \o "ms" ],
      latency |-> end - start,
      timestamp |-> start ]

\* the result healthCheck returns when the ping resolved (lines 441-456)
HealthyResult(nm, dbName, start, end, pingResult) ==
    [ healthy |-> TRUE,
      message |-> "MongoDB connection is healthy",
      details |-> [ name |-> nm,
                    databaseName |-> dbName,
                    isOpen |-> TRUE,
                    isReady |-> IsOk(pingResult),
                    pingResponse |-> pingResult,
                    latency |-> DigitString(end - start) \o "ms" ],
      latency |-> end - start,
      timestamp |-> start ]

\* a catch block that reports the message where the stack is meant
UnhealthyResult_MessageOnly(nm, start, end, error) ==
    [ healthy |-> FALSE,
      message |-> "MongoDB health check failed: "
                    \o (IF InstanceOfError(error) THEN error.message ELSE String(error)),
      details |-> [ name |-> nm,
                    isOpen |-> FALSE,
                    isReady |-> FALSE,
                    error |-> IF InstanceOfError(error) THEN error.message ELSE String(error) ],
      latency |-> end - start,
      timestamp |-> start ]

\* a catch block that stamps the result when it is built, not when the probe started
UnhealthyResult_StampedAtEnd(nm, start, end, error) ==
    [ healthy |-> FALSE,
      message |-> "MongoDB health check failed: "
                    \o (IF InstanceOfError(error) THEN error.message ELSE String(error)),
      details |-> [ name |-> nm,
                    isOpen |-> FALSE,
                    isReady |-> FALSE,
                    error |-> IF InstanceOfError(error) THEN error.stack ELSE String(error) ],
      latency |-> end - start,
      timestamp |-> end ]

\* the result healthCheck returns from its catch block (lines 457-470)
UnhealthyResult(nm, start, end, error) ==
    [ healthy |-> FALSE,
      message |-> "MongoDB health check failed: "
                    \o (IF InstanceOfError(error) THEN error.message ELSE String(error)),
      details |-> [ name |-> nm,
                    isOpen |-> FALSE,
                    isReady |-> FALSE,
                    error |-> IF InstanceOfError(error) THEN error.stack ELSE String(error) ],
      latency |-> end - start,
      timestamp |-> start ]

\* a catch block that handles Error instances only and rethrows anything else
HealthCheckOutcome_RethrowsNonError(nm, dbName, start, end, outcome) ==
    IF outcome.kind = "resolved"
    THEN Return(HealthyResult(nm, dbName, start, end, outcome.value))
    ELSE IF InstanceOfError(outcome.value)
    THEN Return(UnhealthyResult(nm, start, end, outcome.value))
    ELSE Throw(outcome.value)

\* healthCheck's try/catch: what the call gives its caller for an outcome of the probe
HealthCheckOutcome(nm, dbName, start, end, outcome) ==
    IF outcome.kind = "resolved"
    THEN Return(HealthyResult(nm, dbName, start, end, outcome.value))
    ELSE Return(UnhealthyResult(nm, start, end, outcome.value))

\* an isConnected whose this.db() sits outside the try block
IsConnectedOutcome_DbOutsideTry(outcome) ==
    IF outcome.kind = "resolved" THEN Return(TRUE)
    ELSE IF outcome.kind = "dbThrew" THEN Throw(outcome.value)
    ELSE Return(FALSE)

\* isConnected's try/catch
IsConnectedOutcome(outcome) ==
    IF outcome.kind = "resolved" THEN Return(TRUE) ELSE Return(FALSE)

ProbeOutcome(op, start, end, outcome) ==
    IF op = "healthCheck"
    THEN HealthCheckOutcome(name, DatabaseNameOf(url), start, end, outcome)
    ELSE IsConnectedOutcome(outcome)

Completed(c, op, start, outcome) ==
    [ op |-> op, outcome |-> outcome, start |-> start, end |-> now,
      connAt |-> conn, ret |-> ProbeOutcome(op, start, now, outcome) ]

\* a probe that calls this.connect() before it pings
ProbeBegin_Connects(c, op) ==
    /\ mstate = "alive"
    /\ calls[c].op = "none"
    /\ calls' = [calls EXCEPT ![c] = [op |-> op, start |-> now]]
    /\ connectIssued' = TRUE
    /\ conn' = IF conn \in {"constructed", "closed"} THEN "opening" ELSE conn
    /\ UNCHANGED <<now, settings, mstate, thrown, clientCreated, url, name, listeners,
                   closeCall, connectCall, log, done>>

\* a probe that keeps its start instant in a field of the Manager, which every
\* call in flight then reads
ProbeBegin_SharedStart(c, op) ==
    /\ mstate = "alive"
    /\ calls[c].op = "none"
    /\ calls' = [d \in DOMAIN calls |->
                   IF d = c THEN [op |-> op, start |-> now]
                   ELSE IF calls[d].op # "none" THEN [calls[d] EXCEPT !.start = now]
                   ELSE calls[d]]
    /\ UNCHANGED <<now, settings, mstate, thrown, clientCreated, url, name, listeners,
                   connectIssued, conn, closeCall, connectCall, log, done>>

\* the call starts: start = Date.now(), this.db() succeeds, the ping is sent and
\* the call suspends at its await
ProbeBegin(c, op) ==
    /\ mstate = "alive"
    /\ calls[c].op = "none"
    /\ calls' = [calls EXCEPT ![c] = [op |-> op, start |-> now]]
    /\ UNCHANGED <<now, settings, mstate, thrown, clientCreated, url, name, listeners,
                   connectIssued, conn, closeCall, connectCall, log, done>>

\* the call starts and this.db() throws: the catch block runs at once
ProbeDbThrows(c, op, e) ==
    /\ mstate = "alive"
    /\ calls[c].op = "none"
    /\ done' = Completed(c, op, now, [kind |-> "dbThrew", value |-> e])
    /\ UNCHANGED <<now, settings, mstate, thrown, clientCreated, url, name, listeners,
                   connectIssued, conn, closeCall, connectCall, log, calls>>

\* the ping resolves with a document
ProbeResolves(c, pingResult) ==
    /\ calls[c].op # "none"
    /\ done' = Completed(c, calls[c].op, calls[c].start,
                         [kind |-> "resolved", value |-> pingResult])
    /\ calls' = [calls EXCEPT ![c] = IdleCall]
    /\ UNCHANGED <<now, settings, mstate, thrown, clientCreated, url, name, listeners,
                   connectIssued, conn, closeCall, connectCall, log>>

\* the ping rejects
ProbeRejects(c, e) ==
    /\ calls[c].op # "none"
    /\ done' = Completed(c, calls[c].op, calls[c].start,
                         [kind |-> "rejected", value |-> e])
    /\ calls' = [calls EXCEPT ![c] = IdleCall]
    /\ UNCHANGED <<now, settings, mstate, thrown, clientCreated, url, name, listeners,
                   connectIssued, conn, closeCall, connectCall, log>>

ProbeOps == {"healthCheck", "isConnected"}

----------------------------------------------------------------------------
(* MongoDbManager: getModel *)

Chars == {"a", "b", "."}
\* the names getModel is called with: strings of at most MaxNameLen characters
Names == UNION { [1..k -> Chars] : k \in 0..MaxNameLen }

\* conn.db() with no argument: the database of the connection url
DefaultDatabase == <<"<default>">>

Dots(s) == { i \in 1..Len(s) : s[i] = "." }
FirstDot(s) == CHOOSE i \in Dots(s) : \A j \in Dots(s) : i <= j

\* String.prototype.split('.')
RECURSIVE Split(_)
Split(s) ==
    IF Dots(s) = {}
    THEN <<s>>
    ELSE <<SubSeq(s, 1, FirstDot(s) - 1)>> \o Split(SubSeq(s, FirstDot(s) + 1, Len(s)))

\* a getModel that always opens the default database
ManagerGetModel_DefaultDbOnly(nm) ==
    LET names == Split(nm)
    IN  IF Len(names) >= 2
        THEN [db |-> DefaultDatabase, coll |-> names[2]]
        ELSE [db |-> DefaultDatabase, coll |-> names[1]]

\* getModel(name): the database and the collection the handle is asked for
ManagerGetModel(nm) ==
    LET names == Split(nm)
    IN  IF Len(names) >= 2
        THEN [db |-> names[1], coll |-> names[2]]
        ELSE [db |-> DefaultDatabase, coll |-> names[1]]

GetModelCall ==
    /\ mstate = "alive"
    /\ gmResult.kind = "none"
    /\ gmResult' = Return(ManagerGetModel(gmName))
    /\ UNCHANGED <<gmName, gcResult>>

----------------------------------------------------------------------------
(* Lookup helpers *)

RegNames == {"mongodb", "local"}
Undefined == [class |-> "undefined", chain |-> {}]
\* what a registry can hold under a name: a manager of this adapter, or of another
Managers ==
    { [class |-> "MongoDbManager", chain |-> {"MongoDbManager", "MongoClient"}],
      [class |-> "MongooseManager", chain |-> {"MongooseManager"}] }
\* the models a manager of another kind knows; a MongoDbManager resolves every name
OtherManagerModels == {"movies"}
ModelNames == {"movies", "users"}

\* `o instanceof C`
InstanceOf(o, C) == C \in o.chain

\* `managerName || registry.defaultManager`
NameOrDefault(args, def) ==
    IF Truthy(args, "managerName") THEN args.managerName ELSE def

\* registry.getManager(managerName): the entry under the name, or under the
\* default name when none is given; undefined when there is none
RegistryGetManager(reg, def, args) ==
    LET n == IF "managerName" \in DOMAIN args THEN args.managerName ELSE def
    IN  IF n \in DOMAIN reg THEN reg[n] ELSE Undefined

\* a getManager without the instanceof check
HelperGetManager_NoTypeCheck(reg, def, args) ==
    LET manager == RegistryGetManager(reg, def, args)
    IN  IF manager = Undefined
        THEN Throw([type |-> "ManagerNotFoundError",
                    managerName |-> NameOrDefault(args, def)])
        ELSE Return(manager)

\* getManager(registry, managerName?)
HelperGetManager(reg, def, args) ==
    LET manager == RegistryGetManager(reg, def, args)
    IN  IF manager = Undefined
        THEN Throw([type |-> "ManagerNotFoundError",
                    managerName |-> NameOrDefault(args, def)])
        ELSE IF ~ InstanceOf(manager, "MongoDbManager")
        THEN Throw([type |-> "InvalidManagerConfigError",
                    message |-> "Manager \"" \o NameOrDefault(args, def)
                                  \o "\" is not instance of MongoDbManager"])
        ELSE Return(manager)

\* MongoDbManager.getConnection(): `return this`
ManagerGetConnection(m) == m

\* the Manager as an object: it is its own client
This == [class |-> "MongoDbManager", chain |-> {"MongoDbManager", "MongoClient"}]

\* manager.getConnection()
ManagerGetConnectionCall ==
    /\ mstate = "alive"
    /\ gcResult.kind = "none"
    /\ gcResult' = Return(ManagerGetConnection(This))
    /\ UNCHANGED <<gmName, gmResult>>

\* registry.getConnection(managerName): the connection of the manager under the
\* name (or the default name); undefined when there is no such manager
RegistryGetConnection(reg, def, args) ==
    LET manager == RegistryGetManager(reg, def, args)
    IN  IF manager = Undefined THEN Undefined
        ELSE IF InstanceOf(manager, "MongoDbManager") THEN ManagerGetConnection(manager)
        ELSE [class |-> "Connection", chain |-> {"Connection"}]

\* a getConnection without the instanceof check
HelperGetConnection_NoTypeCheck(reg, def, args) ==
    LET conn_ == RegistryGetConnection(reg, def, args)
    IN  IF conn_ = Undefined
        THEN Throw([type |-> "ManagerNotFoundError",
                    managerName |-> NameOrDefault(args, def)])
        ELSE Return(conn_)

\* getConnection(registry, managerName?)
HelperGetConnection(reg, def, args) ==
    LET conn_ == RegistryGetConnection(reg, def, args)
    IN  IF conn_ = Undefined
        THEN Throw([type |-> "ManagerNotFoundError",
                    managerName |-> NameOrDefault(args, def)])
        ELSE IF ~ InstanceOf(conn_, "MongoClient")
        THEN Throw([type |-> "InvalidManagerConfigError",
                    message |-> "Connection \"" \o NameOrDefault(args, def)
                                  \o "\" is not instance of MongoClient"])
        ELSE Return(conn_)

\* registry.getModel(managerName, modelName?): with one name, the model of that
\* name in the default manager; with two, the model in the named manager;
\* undefined when the manager is missing or does not know the model
RegistryGetModel(reg, def, args) ==
    LET mgr == IF "modelName" \in DOMAIN args THEN args.managerName ELSE def
        mdl == IF "modelName" \in DOMAIN args THEN args.modelName ELSE args.managerName
        manager == IF mgr \in DOMAIN reg THEN reg[mgr] ELSE Undefined
    IN  IF manager = Undefined THEN Undefined
        ELSE IF InstanceOf(manager, "MongoDbManager")
        THEN [class |-> "Collection", chain |-> {"Collection"}, manager |-> mgr, model |-> mdl]
        ELSE IF mdl \in OtherManagerModels
        THEN [class |-> "Model", chain |-> {"Model"}, manager |-> mgr, model |-> mdl]
        ELSE Undefined

\* new ModelNotFoundError(modelName, managerName?)
ModelNotFoundError(modelName, managerName) ==
    IF managerName = NoFields
    THEN [type |-> "ModelNotFoundError", modelName |-> modelName]
    ELSE [type |-> "ModelNotFoundError", modelName |-> modelName,
          managerName |-> managerName.v]

\* a getModel that always reports its first name as the manager
HelperGetModel_AlwaysManagerName(reg, def, args) ==
    LET model == RegistryGetModel(reg, def, args)
    IN  IF model = Undefined
        THEN Throw(ModelNotFoundError(
                 IF Truthy(args, "modelName") THEN args.modelName ELSE args.managerName,
                 [v |-> args.managerName]))
        ELSE Return(model)

\* getModel(registry, managerName, modelName?)
HelperGetModel(reg, def, args) ==
    LET model == RegistryGetModel(reg, def, args)
    IN  IF model = Undefined
        THEN Throw(ModelNotFoundError(
                 IF Truthy(args, "modelName") THEN args.modelName ELSE args.managerName,
                 IF Truthy(args, "modelName") THEN [v |-> args.managerName] ELSE NoFields))
        ELSE Return(model)

ManagerArgs == { NoFields } \cup { [managerName |-> n] : n \in RegNames \cup {"missing"} }

\* the call before this one: what was asked and how it ended
Previous ==
    IF lookup.op = "none" THEN [op |-> "none"]
    ELSE [op |-> lookup.op, args |-> lookup.args, kind |-> lookup.ret.kind,
          type |-> IF lookup.ret.kind = "throw" THEN lookup.ret.value.type ELSE ""]

\* a getManager that remembers a manager it found and answers from memory
GetManagerCall_Cached(args) ==
    /\ lookup' = IF lookup.op = "getManager" /\ lookup.args = args
                    /\ lookup.ret.kind = "return"
                 THEN [op |-> "getManager", args |-> args, reg |-> registry,
                       def |-> defaultManager, ret |-> lookup.ret,
                       queries |-> 0, prev |-> Previous]
                 ELSE [op |-> "getManager", args |-> args, reg |-> registry,
                       def |-> defaultManager,
                       ret |-> HelperGetManager(registry, defaultManager, args),
                       queries |-> 1, prev |-> Previous]
    /\ UNCHANGED <<registry, defaultManager>>

\* each helper calls the registry once (registry.getManager / getConnection /
\* getModel) and keeps nothing
GetManagerCall(args) ==
    /\ lookup' = [op |-> "getManager", args |-> args, reg |-> registry,
                  def |-> defaultManager,
                  ret |-> HelperGetManager(registry, defaultManager, args),
                  queries |-> 1, prev |-> Previous]
    /\ UNCHANGED <<registry, defaultManager>>

GetConnectionCall(args) ==
    /\ lookup' = [op |-> "getConnection", args |-> args, reg |-> registry,
                  def |-> defaultManager,
                  ret |-> HelperGetConnection(registry, defaultManager, args),
                  queries |-> 1, prev |-> Previous]
    /\ UNCHANGED <<registry, defaultManager>>

\* getModel(registry, 'movies') and getModel(registry, 'mongodb', 'movies')
ModelArgs ==
    { [managerName |-> n] : n \in ModelNames }
      \cup { [managerName |-> m, modelName |-> n] :
                m \in RegNames \cup {"missing"}, n \in ModelNames }

GetModelHelperCall(args) ==
    /\ lookup' = [op |-> "getModel", args |-> args, reg |-> registry,
                  def |-> defaultManager,
                  ret |-> HelperGetModel(registry, defaultManager, args),
                  queries |-> 1, prev |-> Previous]
    /\ UNCHANGED <<registry, defaultManager>>

\* the application registers a manager (Storehouse.add)
RegistryAdd(n, m) ==
    /\ registry[n] = Undefined
    /\ registry' = [registry EXCEPT ![n] = m]
    /\ UNCHANGED <<defaultManager, lookup>>

\* the application removes one
RegistryRemove(n) ==
    /\ registry[n] # Undefined
    /\ registry' = [registry EXCEPT ![n] = Undefined]
    /\ UNCHANGED <<defaultManager, lookup>>

----------------------------------------------------------------------------
(* Specifications *)

IdleGetModel == gmName = <<>> /\ gmResult = [kind |-> "none"] /\ gcResult = [kind |-> "none"]
IdleLookup ==
    /\ registry = NoFields
    /\ defaultManager = ""
    /\ lookup = [op |-> "none"]
IdleNames == created = <<>>
\* before `new MongoDbManager(settings)`
IdleManager ==
    /\ now = 0
    /\ settings = NoFields
    /\ mstate = "none"
    /\ thrown = "none"
    /\ clientCreated = FALSE
    /\ url = ""
    /\ name = <<>>
    /\ listeners = NoListeners
    /\ connectIssued = FALSE
    /\ conn = "none"
    /\ closeCall = NoClose
    /\ connectCall = NoConnect
    /\ log = NoLog
    /\ calls = [c \in Slots |-> IdleCall]
    /\ done = NoneDone

\* Construction and the connection's lifecycle
InitConstruct == IdleManager /\ IdleGetModel /\ IdleLookup /\ IdleNames

NextConstruct ==
    \/ \E st \in SettingsSet : ConstructFails(st) /\ UNCHANGED <<getModelVars, lookupVars, created>>
    \/ \E st \in SettingsSet, rnd \in 0..MaxRnd :
          Construct(st, rnd) /\ UNCHANGED <<getModelVars, lookupVars, created>>
    \/ Connect /\ UNCHANGED <<getModelVars, lookupVars, created>>
    \/ ServerOpening /\ UNCHANGED <<getModelVars, lookupVars, created>>
    \/ ServerClosed /\ UNCHANGED <<getModelVars, lookupVars, created>>
    \/ \E force \in {"absent", "false", "true"} :
          CloseConnectionBegin(force) /\ UNCHANGED <<getModelVars, lookupVars, created>>
    \/ UnderlyingCloseResolves /\ UNCHANGED <<getModelVars, lookupVars, created>>
    \/ \E e \in Errors : UnderlyingCloseRejects(e) /\ UNCHANGED <<getModelVars, lookupVars, created>>
    \/ CloseConnectionEnd /\ UNCHANGED <<getModelVars, lookupVars, created>>
    \/ \E err \in EventPayloads : ErrorEvent(err) /\ UNCHANGED <<getModelVars, lookupVars, created>>
    \/ Tick /\ UNCHANGED <<getModelVars, lookupVars, created>>

SpecConstruct == InitConstruct /\ [][NextConstruct]_vars

\* The state after `new MongoDbManager(st)` with a url, named or not
ProbeSettings ==
    { [config |-> [url |-> Url1]], [name |-> "main", config |-> [url |-> Url1]] }

Constructed(slots) ==
    /\ \E st \in ProbeSettings, rnd \in 0..MaxRnd :
          /\ settings = st
          /\ url = st.config.url
          /\ name = ManagerName(st, 0, rnd)
          /\ log = Return(LogLine("info", ManagerName(st, 0, rnd), <<"MongoClient created. Must call \"MongoClient.connect()\".">>))
    /\ now = 0
    /\ mstate = "alive"
    /\ thrown = "none"
    /\ clientCreated = TRUE
    /\ listeners = registerConnectionEvents(NoListeners)
    /\ connectIssued = FALSE
    /\ conn = "constructed"
    /\ closeCall = NoClose
    /\ connectCall = NoConnect
    /\ calls = [c \in slots |-> IdleCall]
    /\ done = NoneDone

ConstructedManager == Constructed(Slots)

\* The probes of a constructed Manager
Init == ConstructedManager /\ IdleGetModel /\ IdleLookup /\ IdleNames

Next ==
    \/ Connect /\ UNCHANGED <<getModelVars, lookupVars, created>>
    \/ ServerOpening /\ UNCHANGED <<getModelVars, lookupVars, created>>
    \/ ServerClosed /\ UNCHANGED <<getModelVars, lookupVars, created>>
    \/ Tick /\ UNCHANGED <<getModelVars, lookupVars, created>>
    \/ \E c \in Slots, op \in ProbeOps :
          ProbeBegin(c, op) /\ UNCHANGED <<getModelVars, lookupVars, created>>
    \/ \E c \in Slots, op \in ProbeOps, e \in Errors :
          ProbeDbThrows(c, op, e) /\ UNCHANGED <<getModelVars, lookupVars, created>>
    \/ \E c \in Slots, pingResult \in PingResponses :
          ProbeResolves(c, pingResult) /\ UNCHANGED <<getModelVars, lookupVars, created>>
    \/ \E c \in Slots, e \in Thrown :
          ProbeRejects(c, e) /\ UNCHANGED <<getModelVars, lookupVars, created>>

Spec == Init /\ [][Next]_vars

\* Every operation of one constructed Manager, with the driver's events
InitLifecycle ==
    /\ ConstructedManager
    /\ "name" \in DOMAIN settings
    /\ gmName = <<"a", ".", "b">>
    /\ gmResult = [kind |-> "none"]
    /\ gcResult = [kind |-> "none"]
    /\ IdleLookup
    /\ IdleNames

NextLifecycle ==
    \/ Connect /\ UNCHANGED <<getModelVars, lookupVars, created>>
    \/ ConnectResolves /\ UNCHANGED <<getModelVars, lookupVars, created>>
    \/ \E e \in Errors : ConnectRejects(e) /\ UNCHANGED <<getModelVars, lookupVars, created>>
    \/ ServerOpening /\ UNCHANGED <<getModelVars, lookupVars, created>>
    \/ ServerClosed /\ UNCHANGED <<getModelVars, lookupVars, created>>
    \/ \E err \in Errors : ErrorEvent(err) /\ UNCHANGED <<getModelVars, lookupVars, created>>
    \/ \E force \in {"absent", "true"} :
          CloseConnectionBegin(force) /\ UNCHANGED <<getModelVars, lookupVars, created>>
    \/ UnderlyingCloseResolves /\ UNCHANGED <<getModelVars, lookupVars, created>>
    \/ \E e \in Thrown : UnderlyingCloseRejects(e) /\ UNCHANGED <<getModelVars, lookupVars, created>>
    \/ CloseConnectionEnd /\ UNCHANGED <<getModelVars, lookupVars, created>>
    \/ \E c \in Slots, op \in ProbeOps :
          ProbeBegin(c, op) /\ UNCHANGED <<getModelVars, lookupVars, created>>
    \/ \E c \in Slots, op \in ProbeOps, e \in Errors :
          ProbeDbThrows(c, op, e) /\ UNCHANGED <<getModelVars, lookupVars, created>>
    \/ \E c \in Slots : ProbeResolves(c, [ok |-> 1]) /\ UNCHANGED <<getModelVars, lookupVars, created>>
    \/ \E c \in Slots, e \in Errors :
          ProbeRejects(c, e) /\ UNCHANGED <<getModelVars, lookupVars, created>>
    \/ GetModelCall /\ UNCHANGED <<managerVars, lookupVars, created>>
    \/ ManagerGetConnectionCall /\ UNCHANGED <<managerVars, lookupVars, created>>

SpecLifecycle == InitLifecycle /\ [][NextLifecycle]_vars

\* Overlapping calls of isConnected, healthCheck and getModel on one Manager
ConcurrentSlots == 1..MaxConcurrent

InitConcurrent ==
    /\ Constructed(ConcurrentSlots)
    /\ "name" \in DOMAIN settings
    /\ gmName = <<"a", ".", "b">>
    /\ gmResult = [kind |-> "none"]
    /\ gcResult = [kind |-> "none"]
    /\ IdleLookup
    /\ IdleNames

NextConcurrent ==
    \/ Connect /\ UNCHANGED <<getModelVars, lookupVars, created>>
    \/ ServerOpening /\ UNCHANGED <<getModelVars, lookupVars, created>>
    \/ Tick /\ UNCHANGED <<getModelVars, lookupVars, created>>
    \/ \E c \in ConcurrentSlots, op \in ProbeOps :
          ProbeBegin(c, op) /\ UNCHANGED <<getModelVars, lookupVars, created>>
    \/ \E c \in ConcurrentSlots, op \in ProbeOps, e \in Errors :
          ProbeDbThrows(c, op, e) /\ UNCHANGED <<getModelVars, lookupVars, created>>
    \/ \E c \in ConcurrentSlots, pingResult \in {[ok |-> 1], [ok |-> 0]} :
          ProbeResolves(c, pingResult) /\ UNCHANGED <<getModelVars, lookupVars, created>>
    \/ \E c \in ConcurrentSlots, e \in Errors :
          ProbeRejects(c, e) /\ UNCHANGED <<getModelVars, lookupVars, created>>
    \/ GetModelCall /\ UNCHANGED <<managerVars, lookupVars, created>>

SpecConcurrent == InitConcurrent /\ [][NextConcurrent]_vars

\* one more `new MongoDbManager(st)` in the same process: its name
NewManager(st, rnd) ==
    /\ Len(created) < MaxManagers
    /\ ~ MissingUrl(st)
    /\ created' = Append(created, [settings |-> st, at |-> now, rnd |-> rnd,
                                    name |-> ManagerName(st, now, rnd)])

\* Several Managers constructed in one process
InitNames == IdleManager /\ IdleGetModel /\ IdleLookup /\ IdleNames

NextNames ==
    \/ \E st \in SettingsSet, rnd \in 0..MaxRnd :
          NewManager(st, rnd) /\ UNCHANGED <<managerVars, getModelVars, lookupVars>>
    \/ Tick /\ UNCHANGED <<getModelVars, lookupVars, created>>

SpecNames == InitNames /\ [][NextNames]_vars

\* Manager.getModel applied to every name
InitGetModel ==
    /\ ConstructedManager
    /\ gmName \in Names
    /\ gmResult = [kind |-> "none"]
    /\ gcResult = [kind |-> "none"]
    /\ IdleLookup
    /\ IdleNames

NextGetModel == GetModelCall /\ UNCHANGED <<managerVars, lookupVars, created>>

SpecGetModel == InitGetModel /\ [][NextGetModel]_vars

\* The lookup helpers against a registry the application fills and empties
InitLookup ==
    /\ IdleManager
    /\ IdleGetModel
    /\ registry = [n \in RegNames |-> Undefined]
    /\ defaultManager \in RegNames
    /\ lookup = [op |-> "none"]
    /\ IdleNames

NextLookup ==
    \/ \E n \in RegNames, m \in Managers :
          RegistryAdd(n, m) /\ UNCHANGED <<managerVars, getModelVars, created>>
    \/ \E n \in RegNames : RegistryRemove(n) /\ UNCHANGED <<managerVars, getModelVars, created>>
    \/ \E args \in ManagerArgs :
          GetManagerCall(args) /\ UNCHANGED <<managerVars, getModelVars, created>>
    \/ \E args \in ManagerArgs :
          GetConnectionCall(args) /\ UNCHANGED <<managerVars, getModelVars, created>>
    \/ \E args \in ModelArgs :
          GetModelHelperCall(args) /\ UNCHANGED <<managerVars, getModelVars, created>>

SpecLookup == InitLookup /\ [][NextLookup]_vars

----------------------------------------------------------------------------
(* Properties *)

HealthCheckDone == done.op = "healthCheck"
ProbeFailed == done.outcome.kind \in {"rejected", "dbThrew"}

\* C1: healthCheck() never throws: whatever the connection state and whatever
\* the probe did (the ping resolved with ok = 1 or not, rejected with an Error
\* or with another value, or db() threw), the call returns a result value.
C1_HealthCheckNeverThrows ==
    HealthCheckDone =>
        /\ done.ret.kind = "return"
        /\ done.ret.value.healthy \in BOOLEAN

\* a healthCheck on a closed connection whose ping rejected with a non-Error value
C1_Witness ==
    /\ HealthCheckDone
    /\ done.connAt = "closed"
    /\ done.outcome.kind = "rejected"
    /\ done.outcome.value.t = "number"

\* C2: when the ping resolves, the result is healthy, isOpen, isReady exactly
\* when the response has ok = 1, names the default database, carries the raw
\* ping response and has no error.
C2_ResolvedPingIsHealthy ==
    (HealthCheckDone /\ done.outcome.kind = "resolved") =>
        LET r == done.ret.value
            resp == done.outcome.value
        IN  /\ done.ret.kind = "return"
            /\ r.healthy = TRUE
            /\ r.details.isOpen = TRUE
            /\ r.details.isReady = ("ok" \in DOMAIN resp /\ resp.ok = 1)
            /\ r.details.databaseName = "testdb"
            /\ r.details.pingResponse = resp
            /\ "error" \notin DOMAIN r.details

\* a ping that resolved with ok = 0: healthy, but not ready
C2_Witness ==
    /\ HealthCheckDone
    /\ done.outcome.kind = "resolved"
    /\ "ok" \in DOMAIN done.outcome.value
    /\ done.outcome.value.ok = 0
    /\ done.ret.value.details.isReady = FALSE

\* C3: when the ping rejects or db() throws, the result is unhealthy, not open,
\* not ready, its error is the stack of an Error or the text of any other
\* value, it has no databaseName and no pingResponse, and its latency is still
\* there, counted from the start of the probe.
C3_FailedPingIsUnhealthy ==
    (HealthCheckDone /\ ProbeFailed) =>
        LET r == done.ret.value
            e == done.outcome.value
        IN  /\ done.ret.kind = "return"
            /\ r.healthy = FALSE
            /\ r.details.isOpen = FALSE
            /\ r.details.isReady = FALSE
            /\ "error" \in DOMAIN r.details
            /\ e.t = "Error" => r.details.error = e.stack
            /\ e.t = "string" => r.details.error = e.v
            /\ e.t = "number" => r.details.error = "7"
            /\ "databaseName" \notin DOMAIN r.details
            /\ "pingResponse" \notin DOMAIN r.details
            /\ "latency" \in DOMAIN r
            /\ r.latency = done.end - done.start

\* a ping that rejected with an Error after the clock moved
C3_Witness ==
    /\ HealthCheckDone
    /\ done.outcome.kind = "rejected"
    /\ done.outcome.value.t = "Error"
    /\ done.end > done.start

\* C4: every result of healthCheck, healthy or not, has the clock value read at
\* the start of the probe as its timestamp and the clock value at its end minus
\* that start as its latency, which is never negative.
C4_TimestampAndLatency ==
    HealthCheckDone =>
        /\ done.ret.value.timestamp = done.start
        /\ done.ret.value.latency = done.end - done.start
        /\ done.ret.value.latency >= 0

\* db() threw at once, later than clock value 0: latency 0, timestamp set
C4_Witness ==
    /\ HealthCheckDone
    /\ done.outcome.kind = "dbThrew"
    /\ done.start > 0
    /\ done.ret.value.latency = 0
    /\ done.ret.value.timestamp = done.start

\* C5: isConnected() never throws: it returns true exactly when the ping
\* resolved, and false when the ping rejected or db() threw.
C5_IsConnectedNeverThrows ==
    done.op = "isConnected" =>
        /\ done.ret.kind = "return"
        /\ done.ret.value = (done.outcome.kind = "resolved")

\* an isConnected whose db() threw, answered false
C5_Witness ==
    /\ done.op = "isConnected"
    /\ done.outcome.kind = "dbThrew"
    /\ done.ret = Return(FALSE)

\* settings with no config, no config.url, or an empty config.url
NoUrl(st) ==
    \/ "config" \notin DOMAIN st
    \/ "url" \notin DOMAIN st.config
    \/ st.config.url = ""

\* C6: constructing with no config, no url or an empty url fails with
\* InvalidManagerConfigError before the client is created: no client, no
\* observer registered, no connect issued.
C6_MissingUrlRejected ==
    (mstate # "none" /\ NoUrl(settings)) =>
        /\ mstate = "failed"
        /\ thrown = "InvalidManagerConfigError"
        /\ clientCreated = FALSE
        /\ \A e \in Events : listeners[e] = 0
        /\ connectIssued = FALSE
        /\ conn = "none"

\* a construction with an empty-string url
C6_Witness ==
    /\ mstate = "failed"
    /\ "config" \in DOMAIN settings
    /\ "url" \in DOMAIN settings.config
    /\ settings.config.url = ""

\* C7: construction calls no connect and leaves the connection 'constructed';
\* the connection leaves 'constructed' only in a step that is a connect call.
C7_NoConnectOnConstruct ==
    [][ /\ (mstate # "alive" /\ mstate' = "alive") =>
             (conn' = "constructed" /\ connectIssued' = FALSE)
        /\ (conn = "constructed" /\ conn' # "constructed") =>
             (connectIssued = FALSE /\ connectIssued' = TRUE) ]_vars

\* a constructed Manager, with options, on which close was called and time
\* passed, and no connect
C7_Witness ==
    /\ mstate = "alive"
    /\ "options" \in DOMAIN settings.config
    /\ conn = "constructed"
    /\ connectIssued = FALSE
    /\ closeCall.pc = "awaiting"
    /\ now > 0

GetModelDone == gmResult.kind # "none"
Segments(s) == Cardinality(Dots(s)) + 1
BeforeFirstDot(s) == SubSeq(s, 1, FirstDot(s) - 1)
AfterFirstDot(s) == SubSeq(s, FirstDot(s) + 1, Len(s))

\* C8: getModel(name) never fails; a name without a dot is the collection of
\* that name in the default database, a name db.coll is the collection coll in
\* the database db.
C8_GetModelResolves ==
    GetModelDone =>
        /\ gmResult.kind = "return"
        /\ Segments(gmName) = 1 =>
              gmResult.value = [db |-> DefaultDatabase, coll |-> gmName]
        /\ (Segments(gmName) = 2 /\ BeforeFirstDot(gmName) # <<>>) =>
              /\ gmName = gmResult.value.db \o <<".">> \o gmResult.value.coll
              /\ Dots(gmResult.value.db) = {}
              /\ Dots(gmResult.value.coll) = {}

\* getModel('ab.ba')
C8_Witness ==
    /\ GetModelDone
    /\ gmName = <<"a", "b", ".", "b", "a">>
    /\ gmResult.value = [db |-> <<"a", "b">>, coll |-> <<"b", "a">>]

\* C9: for a name of three or more segments only the first dot separates: the
\* database is the first segment, the collection everything after the first dot.
C9_OnlyFirstDotSeparates ==
    (GetModelDone /\ Segments(gmName) >= 3 /\ \A i \in 1..Len(Split(gmName)) : Split(gmName)[i] # <<>>) =>
        /\ gmResult.value.db = BeforeFirstDot(gmName)
        /\ gmResult.value.coll = AfterFirstDot(gmName)

\* the entry the registry held, at the call, under the name asked for
LookupName == IF "managerName" \in DOMAIN lookup.args THEN lookup.args.managerName ELSE lookup.def
LookupEntry == IF LookupName \in DOMAIN lookup.reg THEN lookup.reg[LookupName] ELSE Undefined

\* C10: getManager returns the registry's manager under the name (the default
\* name when none is given) when it is a MongoDbManager, throws
\* ManagerNotFoundError naming that name when there is none, throws
\* InvalidManagerConfigError when it is of another kind, and so never returns
\* undefined or another kind of object.
C10_GetManager ==
    lookup.op = "getManager" =>
        /\ LookupEntry.class = "MongoDbManager" => lookup.ret = Return(LookupEntry)
        /\ LookupEntry.class = "undefined" =>
              /\ lookup.ret.kind = "throw"
              /\ lookup.ret.value.type = "ManagerNotFoundError"
              /\ lookup.ret.value.managerName = LookupName
        /\ LookupEntry.class = "MongooseManager" =>
              /\ lookup.ret.kind = "throw"
              /\ lookup.ret.value.type = "InvalidManagerConfigError"
        /\ lookup.ret.kind = "return" => lookup.ret.value.class = "MongoDbManager"

\* getManager(registry) with a manager of another kind under the default name
C10_Witness ==
    /\ lookup.op = "getManager"
    /\ lookup.args = NoFields
    /\ lookup.reg[lookup.def].class = "MongooseManager"
    /\ lookup.ret.kind = "throw"

\* C11: getConnection returns the connection the registry gives for the name
\* (the default name when none is given) when it is a MongoClient, throws
\* ManagerNotFoundError naming that name when the registry gives nothing, and
\* throws InvalidManagerConfigError when it gives anything else; it never
\* returns undefined.
C11_GetConnection ==
    lookup.op = "getConnection" =>
        /\ LookupEntry.class = "MongoDbManager" => lookup.ret = Return(LookupEntry)
        /\ LookupEntry.class = "undefined" =>
              /\ lookup.ret.kind = "throw"
              /\ lookup.ret.value.type = "ManagerNotFoundError"
              /\ lookup.ret.value.managerName = LookupName
        /\ LookupEntry.class = "MongooseManager" =>
              /\ lookup.ret.kind = "throw"
              /\ lookup.ret.value.type = "InvalidManagerConfigError"
        /\ lookup.ret.kind = "return" =>
              /\ lookup.ret.value # Undefined
              /\ "MongoClient" \in lookup.ret.value.chain

\* getConnection(registry, 'local') where 'local' is a manager of another kind
C11_Witness ==
    /\ lookup.op = "getConnection"
    /\ lookup.args = [managerName |-> "local"]
    /\ lookup.reg["local"].class = "MongooseManager"
    /\ lookup.ret.kind = "throw"
    /\ lookup.ret.value.type = "InvalidManagerConfigError"

ThreeArgs == "modelName" \in DOMAIN lookup.args
\* the manager and the model a getModel call asks for
AskedManager == IF ThreeArgs THEN lookup.args.managerName ELSE lookup.def
AskedModel == IF ThreeArgs THEN lookup.args.modelName ELSE lookup.args.managerName
AskedManagerEntry == IF AskedManager \in DOMAIN lookup.reg THEN lookup.reg[AskedManager] ELSE Undefined
\* the registry resolves the pairing: the manager is there and knows the model
Resolves ==
    \/ AskedManagerEntry.class = "MongoDbManager"
    \/ AskedManagerEntry.class = "MongooseManager" /\ AskedModel = "movies"

\* C12: getModel with two arguments looks the name up in the default manager,
\* with three in the named manager; it returns the model the registry resolves
\* and otherwise throws ModelNotFoundError with the model name and, only with
\* three arguments, the manager name.
C12_GetModelHelper ==
    lookup.op = "getModel" =>
        /\ Resolves =>
              /\ lookup.ret.kind = "return"
              /\ lookup.ret.value.manager = AskedManager
              /\ lookup.ret.value.model = AskedModel
        /\ ~ Resolves =>
              /\ lookup.ret.kind = "throw"
              /\ lookup.ret.value.type = "ModelNotFoundError"
              /\ lookup.ret.value.modelName = AskedModel
              /\ ThreeArgs => /\ "managerName" \in DOMAIN lookup.ret.value
                              /\ lookup.ret.value.managerName = lookup.args.managerName
              /\ ~ ThreeArgs => "managerName" \notin DOMAIN lookup.ret.value

\* getModel(registry, 'users') with a default manager that does not know 'users'
C12_Witness ==
    /\ lookup.op = "getModel"
    /\ lookup.args = [managerName |-> "users"]
    /\ AskedManagerEntry.class = "MongooseManager"
    /\ lookup.ret.kind = "throw"
    /\ lookup.ret.value = [type |-> "ModelNotFoundError", modelName |-> "users"]

\* C13: closeConnection hands its force argument to the underlying close
\* (true arrives as true; absent or false is a close without argument), and
\* the call has completed only when the underlying close has completed.
C13_CloseAwaitsUnderlying ==
    /\ closeCall.pc # "idle" =>
          closeCall.arg = (IF closeCall.force = "true" THEN "true" ELSE "absent")
    /\ closeCall.pc \in {"returned", "threw"} =>
          closeCall.underlying \in {"resolved", "rejected"}

\* closeConnection(true) on an open client has returned
C13_Witness ==
    /\ closeCall.pc = "returned"
    /\ closeCall.force = "true"
    /\ closeCall.arg = "true"
    /\ closeCall.underlying = "resolved"
    /\ connectIssued
    /\ conn = "closed"

\* C14: only isConnected and healthCheck catch a failure of the driver: a
\* failed probe returns a value, while the error the underlying close rejects
\* with during closeConnection, and the one connect rejects with, is the very
\* error the caller gets.
C14_ErrorsPropagate ==
    /\ (closeCall.pc \in {"returned", "threw"} /\ closeCall.underlying = "rejected") =>
          /\ closeCall.pc = "threw"
          /\ closeCall.ret = Throw(closeCall.rejected)
    /\ closeCall.pc = "threw" => closeCall.underlying = "rejected"
    /\ connectCall.pc = "threw" => connectCall.ret = Throw(connectCall.rejected)
    /\ (done.op # "none" /\ ProbeFailed) => done.ret.kind = "return"

\* closeConnection threw what close() rejected with, and a probe whose ping
\* was rejected returned
C14_Witness ==
    /\ closeCall.pc = "threw"
    /\ closeCall.rejected \in Thrown
    /\ closeCall.ret.value = closeCall.rejected
    /\ done.op # "none"
    /\ done.outcome.kind = "rejected"
    /\ done.ret.kind = "return"

\* the step is the delivery of an 'error' event that wrote a new log line
ErrorLogged ==
    /\ log' # log
    /\ \E err \in EventPayloads : log' = Observer("error", name, err)

C17_ObserversOnlyLog ==
    mstate = "alive" =>
        /\ \A e \in Events : listeners[e] = 1
        /\ log.kind # "throw"

Unnamed(i) == ~ Truthy(created[i].settings, "name")

\* C15 as stated: any two Managers constructed without an explicit name have
\* different names, and an explicit non-empty name is kept exactly.
C15_AlwaysDistinct ==
    /\ \A i, j \in 1..Len(created) :
          (i # j /\ Unnamed(i) /\ Unnamed(j)) => created[i].name # created[j].name
    /\ \A i \in 1..Len(created) :
          ~ Unnamed(i) => created[i].name = <<created[i].settings.name>>

\* C15, amended: two Managers constructed without an explicit name have the
\* same name exactly when they were constructed at the same clock instant and
\* drew the same random bytes; an explicit non-empty name is kept exactly.
C15_DistinctUnlessSameDraw ==
    /\ \A i, j \in 1..Len(created) :
          (i # j /\ Unnamed(i) /\ Unnamed(j)) =>
              (created[i].name = created[j].name
                  <=> (created[i].at = created[j].at /\ created[i].rnd = created[j].rnd))
    /\ \A i \in 1..Len(created) :
          ~ Unnamed(i) => created[i].name = <<created[i].settings.name>>

\* two unnamed Managers constructed at the same instant, with different names
C15_Witness ==
    /\ Len(created) >= 2
    /\ Unnamed(1) /\ Unnamed(2)
    /\ created[1].at = created[2].at
    /\ created[1].name # created[2].name

\* the calls that complete in this step
Finishing == { c \in DOMAIN calls : calls[c].op # "none" /\ calls'[c].op = "none" }

\* a probe call completes in this step
Completes ==
    /\ done'.op # "none"
    /\ \/ done.op = "none"
       \/ done'.op # done.op
       \/ done'.start # done.start
       \/ done'.end # done.end
       \/ done'.connAt # done.connAt
       \/ done'.outcome # done.outcome

\* C18: overlapping healthCheck, isConnected and getModel calls on one Manager
\* do not interfere: a step of one call leaves what the other calls in flight
\* hold untouched, a completing call reports its own start instant and the
\* outcome of its own ping, and no step of these calls changes the name, the
\* client or any other state of the Manager.
C18_ConcurrentCallsIndependent ==
    [][ /\ \A c \in DOMAIN calls :
              calls'[c] # calls[c] => \A d \in DOMAIN calls \ {c} : calls'[d] = calls[d]
        /\ Completes =>
              /\ Finishing = {} => (done'.start = now /\ done'.outcome.kind = "dbThrew")
              /\ Finishing # {} =>
                    \E c \in Finishing : done'.op = calls[c].op /\ done'.start = calls[c].start
              /\ done'.end = now
              /\ done'.ret.kind = "return"
              /\ done'.op = "healthCheck" =>
                    /\ done'.ret.value.timestamp = done'.start
                    /\ done'.ret.value.latency = now - done'.start
                    /\ done'.ret.value.healthy = (done'.outcome.kind = "resolved")
              /\ done'.op = "isConnected" =>
                    done'.ret.value = (done'.outcome.kind = "resolved")
        /\ gmResult' # gmResult =>
              /\ gmResult' = Return([db |-> <<"a">>, coll |-> <<"b">>])
              /\ UNCHANGED <<calls, done>>
        /\ (calls' # calls \/ Completes \/ gmResult' # gmResult) =>
              UNCHANGED <<name, url, settings, mstate, clientCreated, listeners,
                          connectIssued, conn, connectCall, closeCall, log, gcResult>> ]_vars

\* a healthCheck that started after another call, which is still in flight,
\* has completed with a failed ping; getModel was called meanwhile
C18_Witness ==
    \E c \in DOMAIN calls :
        /\ calls[c].op # "none"
        /\ done.op = "healthCheck"
        /\ done.start > calls[c].start
        /\ done.end > done.start
        /\ done.outcome.kind = "rejected"
        /\ gmResult.kind = "return"

\* the registry holds what the call asked for
Held ==
    IF lookup.op = "getModel" THEN Resolves ELSE LookupEntry.class # "undefined"
NotFound ==
    /\ lookup.ret.kind = "throw"
    /\ lookup.ret.value.type \in {"ManagerNotFoundError", "ModelNotFoundError"}
\* a lookup helper is called in this step
Called ==
    /\ lookup'.op # "none"
    /\ \/ lookup.op = "none"
       \/ lookup'.op # lookup.op
       \/ lookup'.args # lookup.args
       \/ lookup'.reg # lookup.reg
       \/ lookup'.def # lookup.def
       \/ lookup'.prev # lookup.prev

\* C19: a call of a lookup helper queries the registry once, changes neither
\* the registry nor the Manager, and answers from the registry as it is at
\* the call: not-found exactly when the registry does not hold the entry,
\* whatever an earlier call found.
C19_LookupsAreFresh ==
    [][ Called =>
          /\ lookup'.queries = 1
          /\ UNCHANGED <<registry, defaultManager, managerVars, getModelVars>>
          /\ lookup'.reg = registry
          /\ lookup'.def = defaultManager
          /\ NotFound' <=> ~ Held' ]_vars

\* getManager(registry, 'local') failed with not-found, 'local' was then
\* registered, and the same call now returns the manager
C19_Witness ==
    /\ lookup.op = "getManager"
    /\ lookup.args = [managerName |-> "local"]
    /\ lookup.prev.op = "getManager"
    /\ lookup.prev.args = lookup.args
    /\ lookup.prev.type = "ManagerNotFoundError"
    /\ lookup.ret.kind = "return"
    /\ lookup.queries = 1

====
